---- MODULE Spec2Model ----
(***************************************************************************)
(* Model of src/binance.py: the hedge executor                             *)
(* (execute_hedge_arbitrage_strategy), the tools it calls, and the         *)
(* opportunity scanner (find_arbitrage_pairs).                             *)
(*                                                                         *)
(* Numbers are fixed point:                                                *)
(*   quantities and balances   in units of 0.1                             *)
(*   prices                    in units of 0.01                            *)
(*   funding and fee rates     in units of 0.0001                          *)
(*   fees and profits          in units of 0.0000001 (their product)       *)
(*   reported (rounded) money  in units of 0.0001                          *)
(*                                                                         *)
(* mcp.use_tool(name, args) is modelled as a synchronous call of the tool  *)
(* registered under that name, returning the tool's return value.  Tool    *)
(* invocations are served one at a time (synchronous tool functions on a   *)
(* stdio server), so a price query runs between executions.                *)
(***************************************************************************)
EXTENDS Integers, Sequences, FiniteSets, TLC

VARIABLES
    pc,                 \* position of the execution in execute_hedge_arbitrage_strategy
    symbol,             \* argument symbol (sequence of tokens)
    quantity,           \* argument quantity (a string: parsable number or not)
    available_balance,  \* local available_balance
    actual_quantity,    \* local actual_quantity
    funding_rate_data,  \* local funding_rate_data (the list returned by the history tool)
    funding_rate,       \* local funding_rate
    spot_price,         \* local spot_price
    trace,              \* the order calls and the holding interval of this execution, in order
    result,             \* what the execution returned to its caller
    price_cache,        \* the lru_cache of get_symbol_price
    scan_pc,            \* position of the scan in find_arbitrage_pairs
    params,             \* arguments of the scan
    listing,            \* body of the batched premiumIndex response, in its order
    idx,                \* loop index over the listing
    candidates,         \* local candidates
    fetched,            \* per symbol, the responses the scan received
    requests,           \* the HTTP requests the scan issued, in order
    scan_result,        \* what the scan returned
    scorer              \* the stability computation of lines 354-356 on its own

hedgeVars == <<pc, symbol, quantity, available_balance, actual_quantity,
               funding_rate_data, funding_rate, spot_price, trace, result,
               price_cache>>
scanVars == <<scan_pc, params, listing, idx, candidates, fetched, requests,
              scan_result>>
vars == <<pc, symbol, quantity, available_balance, actual_quantity,
          funding_rate_data, funding_rate, spot_price, trace, result,
          price_cache, scan_pc, params, listing, idx, candidates, fetched,
          requests, scan_result, scorer>>

----------------------------------------------------------------------------
(* Bounds and input domains *)

\* longest funding-rate history a fetch returns
MaxHist == 2

Symbols == { <<"BTC", "USDT">>, <<"ETH", "USDT">> }

\* a string handed to float(): ok = it parses, v = the number it parses to
Num(n) == [ok |-> TRUE, v |-> n]
BadNum == [ok |-> FALSE, v |-> 0]

QuantityArgs == { Num(-10), Num(0), Num(10), Num(20), BadNum }
FreeStrs == { Num(-5), Num(0), Num(5), Num(20), BadNum }
RateVals == { -30, 0, 10 }
PriceVals == { 1, 50, 10000 }

SeqsUpTo(S, n) == UNION { [1..k -> S] : k \in 0..n }

Min(a, b) == IF a <= b THEN a ELSE b
Abs(x) == IF x < 0 THEN -x ELSE x

----------------------------------------------------------------------------
(* Tools *)

\* symbol.replace("USDT", "")
Asset(sym) == SelectSeq(sym, LAMBDA t : t # "USDT")

\* HTTP responses of GET /api/v3/account as far as get_account_balance reads them
BalanceResponses(asset) ==
    { [status |-> 200, balances |-> <<[asset |-> asset, free |-> f]>>] : f \in FreeStrs }
    \cup { [status |-> 200, balances |-> <<>>],
           [status |-> 200, balances |-> <<[asset |-> <<"USDT">>, free |-> Num(20)]>>],
           [status |-> 400, balances |-> <<>>] }

\* get_account_balance: the first balance of the asset, else an error object
get_account_balance(asset, response) ==
    LET matches == SelectSeq(response.balances, LAMBDA b : b.asset = asset)
    IN  IF response.status = 200 /\ Len(matches) > 0
        THEN [kind |-> "balance", balance |-> matches[1].free]
        ELSE [kind |-> "error", balance |-> BadNum]

\* try: float(balance_result.get("balance", 0))  except: 0
AvailableBalance(balance_result) ==
    IF balance_result.kind = "balance" /\ balance_result.balance.ok
    THEN balance_result.balance.v
    ELSE 0

\* bug: the requested quantity is used when there is no balance
ActualQuantity_NoGuard(q, b) == IF b > 0 THEN Min(q, b) ELSE q

\* bug: the requested quantity is not capped by the balance
ActualQuantity_NoCap(q, b) == IF b > 0 THEN q ELSE 0

\* min(float(quantity), available_balance) if available_balance > 0 else 0
ActualQuantity(q, b) == IF b > 0 THEN Min(q, b) ELSE 0

\* get_funding_rate_history: the JSON list on 200, else an error object.
\* The endpoint answers with the samples in ascending fundingTime: body[1] is
\* the oldest sample of the window, body[Len(body)] the most recent one
FundingResponses ==
    { [status |-> 200, body |-> h] : h \in SeqsUpTo(RateVals, MaxHist) }
    \cup { [status |-> 400, body |-> <<>>] }

get_funding_rate_history(response) ==
    IF response.status = 200
    THEN [kind |-> "list", list |-> response.body]
    ELSE [kind |-> "error", list |-> <<>>]

\* get_symbol_price, below its cache
NoEntry == [kind |-> "none", price |-> 0]
PriceResponses ==
    { [status |-> 200, hasPrice |-> TRUE, price |-> p] : p \in PriceVals }
    \cup { [status |-> 200, hasPrice |-> FALSE, price |-> 0],
           [status |-> 400, hasPrice |-> FALSE, price |-> 0] }

\* data['price'] on a 200 body without the field raises KeyError
PriceRaises(response) == response.status = 200 /\ ~response.hasPrice

get_symbol_price(response) ==
    IF response.status = 200
    THEN [kind |-> "price", price |-> response.price]
    ELSE [kind |-> "error", price |-> 0]

\* place_market_order / place_futures_order: the returned object by status
OrderStatuses == { 200, 400 }
place_market_order(status) == IF status = 200 THEN "ok" ELSE "error"
place_futures_order(status) == IF status = 200 THEN "ok" ELSE "error"

----------------------------------------------------------------------------
(* Hedge executor *)

SPOT_FEE == 10
FUTURES_FEE == 2
\* one reported unit (4 decimal digits) in units of fee and profit
RoundUnit == 1000

\* round(x, 4): the nearest multiple; on an exact decimal tie the binary
\* value of the float decides, so either neighbour can come out
Round4(x) ==
    LET q == x \div RoundUnit
        r == x % RoundUnit
    IN  IF 2 * r < RoundUnit THEN {q}
        ELSE IF 2 * r > RoundUnit THEN {q + 1}
        ELSE {q, q + 1}

\* bug: the gross profit keeps the sign of the rate
Profit_Signed(rate, price, qty) == rate * price * qty

Fee(price, qty) == (price * qty * SPOT_FEE * 2) + (price * qty * FUTURES_FEE * 2)
Profit(rate, price, qty) == Abs(rate) * price * qty

\* bug: a zero rate opens like a positive one
OpenSpotSide_ZeroIsPositive(rate) == IF rate >= 0 THEN "BUY" ELSE "SELL"

\* bug: the futures leg opens on the side of the spot leg
OpenFuturesSide_SameAsSpot(rate) == IF rate > 0 THEN "BUY" ELSE "SELL"

OpenSpotSide(rate) == IF rate > 0 THEN "BUY" ELSE "SELL"
OpenFuturesSide(rate) == IF rate > 0 THEN "SELL" ELSE "BUY"
CloseFuturesSide(rate) == IF rate > 0 THEN "BUY" ELSE "SELL"
CloseSpotSide(rate) == IF rate > 0 THEN "SELL" ELSE "BUY"

NoResult == [kind |-> "none", detail |-> "", net_profit |-> 0, fees |-> 0]
ErrorResult(d) == [kind |-> "error", detail |-> d, net_profit |-> 0, fees |-> 0]
Raised(d) == [kind |-> "exception", detail |-> d, net_profit |-> 0, fees |-> 0]
Success(np, f) == [kind |-> "success", detail |-> "Arbitrage executed", net_profit |-> np, fees |-> f]

Event(step, market, side, outcome) ==
    [step |-> step, market |-> market, symbol |-> symbol, side |-> side,
     quantity |-> actual_quantity, outcome |-> outcome]

HedgeInit ==
    /\ pc = "idle"
    /\ symbol = <<>>
    /\ quantity = BadNum
    /\ available_balance = 0
    /\ actual_quantity = 0
    /\ funding_rate_data = <<>>
    /\ funding_rate = 0
    /\ spot_price = 0
    /\ trace = <<>>
    /\ result = NoResult
    /\ price_cache = [s \in Symbols |-> NoEntry]

\* a client calls the tool execute_hedge_arbitrage_strategy(symbol, quantity)
Invoke ==
    /\ pc = "idle"
    /\ \E s \in Symbols, q \in QuantityArgs :
        /\ symbol' = s
        /\ quantity' = q
    /\ pc' = "balance"
    /\ UNCHANGED <<available_balance, actual_quantity, funding_rate_data,
                   funding_rate, spot_price, trace, result, price_cache>>
    /\ UNCHANGED scanVars
    /\ UNCHANGED scorer

Finish(r) ==
    /\ pc' = "done"
    /\ result' = r

\* lines 237-246 when the balance tool returns
CheckBalance ==
    /\ pc = "balance"
    /\ \E response \in BalanceResponses(Asset(symbol)) :
        LET b == AvailableBalance(get_account_balance(Asset(symbol), response))
        IN  /\ available_balance' = b
            /\ IF b > 0 /\ ~quantity.ok
               THEN /\ Finish(Raised("quantity"))
                    /\ UNCHANGED actual_quantity
               ELSE /\ actual_quantity' = ActualQuantity(quantity.v, b)
                    /\ IF actual_quantity' <= 0
                       THEN Finish(ErrorResult("Insufficient balance"))
                       ELSE pc' = "funding" /\ UNCHANGED result
    /\ UNCHANGED <<symbol, quantity, funding_rate_data, funding_rate,
                   spot_price, trace, price_cache>>
    /\ UNCHANGED scanVars
    /\ UNCHANGED scorer

\* line 238 when the request of the balance tool raises
CheckBalanceRaises ==
    /\ pc = "balance"
    /\ Finish(Raised("balance"))
    /\ UNCHANGED <<symbol, quantity, available_balance, actual_quantity,
                   funding_rate_data, funding_rate, spot_price, trace,
                   price_cache>>
    /\ UNCHANGED scanVars
    /\ UNCHANGED scorer

\* bug: a missing funding rate is taken as 0 and the execution goes on
FetchFunding_DefaultsToZero ==
    /\ pc = "funding"
    /\ \E response \in FundingResponses :
        LET data == get_funding_rate_history(response)
        IN  /\ funding_rate_data' = data.list
            /\ funding_rate' = IF Len(data.list) > 0 THEN data.list[1] ELSE 0
            /\ pc' = "price"
            /\ UNCHANGED result
    /\ UNCHANGED <<symbol, quantity, available_balance, actual_quantity,
                   spot_price, trace, price_cache>>
    /\ UNCHANGED scanVars
    /\ UNCHANGED scorer

\* lines 248-249: funding_rate = float(funding_rate_data[0]['fundingRate'])
FetchFunding ==
    /\ pc = "funding"
    /\ \E response \in FundingResponses :
        LET data == get_funding_rate_history(response)
        IN  IF data.kind = "list" /\ Len(data.list) > 0
            THEN /\ funding_rate_data' = data.list
                 /\ funding_rate' = data.list[1]
                 /\ pc' = "price"
                 /\ UNCHANGED result
            ELSE /\ funding_rate_data' = data.list
                 /\ Finish(Raised("funding"))
                 /\ UNCHANGED funding_rate
    /\ UNCHANGED <<symbol, quantity, available_balance, actual_quantity,
                   spot_price, trace, price_cache>>
    /\ UNCHANGED scanVars
    /\ UNCHANGED scorer

FetchFundingRaises ==
    /\ pc = "funding"
    /\ Finish(Raised("funding"))
    /\ UNCHANGED <<symbol, quantity, available_balance, actual_quantity,
                   funding_rate_data, funding_rate, spot_price, trace,
                   price_cache>>
    /\ UNCHANGED scanVars
    /\ UNCHANGED scorer

\* lines 250-251 on a cache hit: the cached object is returned, no request
FetchPriceCached ==
    /\ pc = "price"
    /\ price_cache[symbol] # NoEntry
    /\ IF price_cache[symbol].kind = "price"
       THEN /\ spot_price' = price_cache[symbol].price
            /\ pc' = "open_spot"
            /\ UNCHANGED result
       ELSE /\ Finish(Raised("price"))
            /\ UNCHANGED spot_price
    /\ UNCHANGED <<symbol, quantity, available_balance, actual_quantity,
                   funding_rate_data, funding_rate, trace, price_cache>>
    /\ UNCHANGED scanVars
    /\ UNCHANGED scorer

\* lines 250-251 on a cache miss: the returned object is cached, an exception is not
FetchPrice ==
    /\ pc = "price"
    /\ price_cache[symbol] = NoEntry
    /\ \E response \in PriceResponses :
        IF PriceRaises(response)
        THEN /\ Finish(Raised("price"))
             /\ UNCHANGED <<spot_price, price_cache>>
        ELSE LET data == get_symbol_price(response)
             IN  /\ price_cache' = [price_cache EXCEPT ![symbol] = data]
                 /\ IF data.kind = "price"
                    THEN /\ spot_price' = data.price
                         /\ pc' = "open_spot"
                         /\ UNCHANGED result
                    ELSE /\ Finish(Raised("price"))
                         /\ UNCHANGED spot_price
    /\ UNCHANGED <<symbol, quantity, available_balance, actual_quantity,
                   funding_rate_data, funding_rate, trace>>
    /\ UNCHANGED scanVars
    /\ UNCHANGED scorer

FetchPriceRaises ==
    /\ pc = "price"
    /\ price_cache[symbol] = NoEntry
    /\ Finish(Raised("price"))
    /\ UNCHANGED <<symbol, quantity, available_balance, actual_quantity,
                   funding_rate_data, funding_rate, spot_price, trace,
                   price_cache>>
    /\ UNCHANGED scanVars
    /\ UNCHANGED scorer

\* bug: the spot leg is closed before the futures leg
NextStep_CloseSpotFirst(step) ==
    CASE step = "open_spot" -> "open_futures"
      [] step = "open_futures" -> "hold"
      [] step = "hold" -> "close_spot"
      [] step = "close_spot" -> "close_futures"
      [] step = "close_futures" -> "settle"

\* the order of the steps after pre-flight (lines 253-279)
NextStep(step) ==
    CASE step = "open_spot" -> "open_futures"
      [] step = "open_futures" -> "hold"
      [] step = "hold" -> "close_futures"
      [] step = "close_futures" -> "close_spot"
      [] step = "close_spot" -> "settle"

\* one order call: the request raises, or the tool returns an object that
\* the executor does not look at
OrderCall(step, market, side) ==
    /\ pc = step
    /\ \E status \in OrderStatuses, raises \in BOOLEAN :
        IF raises
        THEN /\ trace' = Append(trace, Event(step, market, side, "raise"))
             /\ Finish(Raised(step))
        ELSE /\ trace' = Append(trace, Event(step, market, side,
                    IF market = "spot" THEN place_market_order(status)
                                       ELSE place_futures_order(status)))
             /\ pc' = NextStep(step)
             /\ UNCHANGED result
    /\ UNCHANGED <<symbol, quantity, available_balance, actual_quantity,
                   funding_rate_data, funding_rate, spot_price, price_cache>>
    /\ UNCHANGED scanVars
    /\ UNCHANGED scorer

\* lines 254 / 257
OpenSpot == OrderCall("open_spot", "spot", OpenSpotSide(funding_rate))

\* lines 255 / 258
OpenFutures == OrderCall("open_futures", "futures", OpenFuturesSide(funding_rate))

\* line 260: time.sleep(10)
Hold ==
    /\ pc = "hold"
    /\ trace' = Append(trace, Event("hold", "none", "none", "ok"))
    /\ pc' = NextStep("hold")
    /\ UNCHANGED <<symbol, quantity, available_balance, actual_quantity,
                   funding_rate_data, funding_rate, spot_price, result,
                   price_cache>>
    /\ UNCHANGED scanVars
    /\ UNCHANGED scorer

\* lines 263 / 266
CloseFutures == OrderCall("close_futures", "futures", CloseFuturesSide(funding_rate))

\* lines 264 / 267
CloseSpot == OrderCall("close_spot", "spot", CloseSpotSide(funding_rate))

\* lines 269-279
Settle ==
    /\ pc = "settle"
    /\ LET fee == Fee(spot_price, actual_quantity)
           profit == Profit(funding_rate, spot_price, actual_quantity)
           net_profit == profit - fee
       IN  \E np \in Round4(net_profit), f \in Round4(fee) :
               Finish(Success(np, f))
    /\ UNCHANGED <<symbol, quantity, available_balance, actual_quantity,
                   funding_rate_data, funding_rate, spot_price, trace,
                   price_cache>>
    /\ UNCHANGED scanVars
    /\ UNCHANGED scorer

\* the call is over: its locals are gone, the cache of the price tool stays
Return ==
    /\ pc = "done"
    /\ pc' = "idle"
    /\ symbol' = <<>>
    /\ quantity' = BadNum
    /\ available_balance' = 0
    /\ actual_quantity' = 0
    /\ funding_rate_data' = <<>>
    /\ funding_rate' = 0
    /\ spot_price' = 0
    /\ trace' = <<>>
    /\ result' = NoResult
    /\ UNCHANGED price_cache
    /\ UNCHANGED scanVars
    /\ UNCHANGED scorer

\* a client calls the tool get_symbol_price(symbol) (lines 26-44)
QueryPrice ==
    /\ pc = "idle"
    /\ \E s \in Symbols :
        /\ price_cache[s] = NoEntry
        /\ \E response \in PriceResponses :
            /\ ~PriceRaises(response)
            /\ price_cache' = [price_cache EXCEPT ![s] = get_symbol_price(response)]
    /\ UNCHANGED <<pc, symbol, quantity, available_balance, actual_quantity,
                   funding_rate_data, funding_rate, spot_price, trace, result>>
    /\ UNCHANGED scanVars
    /\ UNCHANGED scorer

----------------------------------------------------------------------------
(* Opportunity scanner: find_arbitrage_pairs *)

ScanSymbols == { "AAA", "BBB" }

\* lastFundingRate strings of the batched response
CurrentRateStrs == { Num(-10), Num(3), Num(5), Num(10), BadNum }
\* signs are all the scorer reads of a history sample
HistoryVals == { -1, 0, 1 }

DefaultMinFundingRate == 5
DefaultMinAvgVolume == 1000000
DefaultHistoryDays == 7
DefaultStabilityThreshold == 80

\* stability thresholds are in percent
ParamSets ==
    [min_funding_rate : {DefaultMinFundingRate},
     min_avg_volume : {DefaultMinAvgVolume},
     history_days : {DefaultHistoryDays},
     stability_threshold : {50, DefaultStabilityThreshold}]

NoParams == [min_funding_rate |-> 0, min_avg_volume |-> 0,
             history_days |-> 0, stability_threshold |-> 0]

\* bodies of the premiumIndex response: every listed symbol once, in any order
Listings ==
    { l \in [1..Cardinality(ScanSymbols) -> [symbol : ScanSymbols, lastFundingRate : CurrentRateStrs]] :
        \A i, j \in DOMAIN l : i # j => l[i].symbol # l[j].symbol }

NotFetched == [state |-> "none", rates |-> <<>>, volume |-> 0]
HistoryFailed == [state |-> "failed", rates |-> <<>>, volume |-> 0]
HistoryOk(h) == [state |-> "ok", rates |-> h, volume |-> 0]
TickerFailed == [state |-> "failed", rates |-> <<>>, volume |-> 0]
TickerOk(v) == [state |-> "ok", rates |-> <<>>, volume |-> v]

HistoryResponses ==
    { [status |-> 200, body |-> h] : h \in SeqsUpTo(HistoryVals, MaxHist) }
    \cup { [status |-> 400, body |-> <<>>] }

\* quoteVolume of the ticker body; hasVolume = FALSE is a body without the field
TickerResponses ==
    { [status |-> 200, hasVolume |-> TRUE, quoteVolume |-> v] :
        v \in { DefaultMinAvgVolume, DefaultMinAvgVolume + 1 } }
    \cup { [status |-> 200, hasVolume |-> FALSE, quoteVolume |-> 0],
           [status |-> 400, hasVolume |-> FALSE, quoteVolume |-> 0] }

\* float(ticker_resp.json().get("quoteVolume", 0))
Volume(response) == IF response.hasVolume THEN response.quoteVolume ELSE 0

\* bug: the rate filter lets every symbol through
BelowMinRate_Never(rate, p) == FALSE

\* line 343: abs(current_rate) < min_funding_rate
BelowMinRate(rate, p) == Abs(rate) < p.min_funding_rate

\* bug: a zero sample counts as aligned
RECURSIVE SameDir_ZeroAligned(_, _)
SameDir_ZeroAligned(rates, current_rate) ==
    IF rates = <<>> THEN 0
    ELSE (IF (Head(rates) >= 0 /\ current_rate > 0) \/ (Head(rates) <= 0 /\ current_rate < 0)
          THEN 1 ELSE 0) + SameDir_ZeroAligned(Tail(rates), current_rate)

\* line 355
RECURSIVE SameDir(_, _)
SameDir(rates, current_rate) ==
    IF rates = <<>> THEN 0
    ELSE (IF (Head(rates) > 0 /\ current_rate > 0) \/ (Head(rates) < 0 /\ current_rate < 0)
          THEN 1 ELSE 0) + SameDir(Tail(rates), current_rate)

\* line 356, as the fraction num / den
Stability(rates, current_rate) ==
    IF rates # <<>>
    THEN [num |-> SameDir(rates, current_rate), den |-> Len(rates)]
    ELSE [num |-> 0, den |-> 1]

\* bug: a volume equal to the minimum is admitted
Admits_VolumeInclusive(volume, stability, p) ==
    /\ volume >= p.min_avg_volume
    /\ stability.num * 100 >= p.stability_threshold * stability.den

\* line 364
Admits(volume, stability, p) ==
    /\ volume > p.min_avg_volume
    /\ stability.num * 100 >= p.stability_threshold * stability.den

\* round(stability, 2) in percent; an exact half needs a history of 8 or
\* more samples and then goes to the even neighbour
RoundPercent(stability) ==
    LET n == 100 * stability.num
        q == n \div stability.den
        r == n % stability.den
    IN  IF 2 * r < stability.den THEN q
        ELSE IF 2 * r > stability.den THEN q + 1
        ELSE IF q % 2 = 0 THEN q ELSE q + 1

\* lines 365-370
Candidate(sym, current_rate, volume, stability) ==
    [symbol |-> sym, current_funding_rate |-> current_rate,
     avg_volume |-> volume, stability |-> RoundPercent(stability)]

\* bug: the key is the signed rate
SortKey_Signed(c) == 0 - c.current_funding_rate

\* the sort key of line 375
SortKey(c) == 0 - Abs(c.current_funding_rate)

\* stable insertion: c goes behind every element whose key is not greater
RECURSIVE InsertByKey(_, _)
InsertByKey(sorted, c) ==
    IF sorted = <<>> THEN <<c>>
    ELSE IF SortKey(Head(sorted)) <= SortKey(c)
         THEN <<Head(sorted)>> \o InsertByKey(Tail(sorted), c)
         ELSE <<c>> \o sorted

\* bug: the candidates are returned in the order they were collected
Sorted_Unsorted(cs) == cs

\* sorted(candidates, key=...): Python's sort is stable
RECURSIVE Sorted(_)
Sorted(cs) ==
    IF cs = <<>> THEN <<>>
    ELSE InsertByKey(Sorted(SubSeq(cs, 1, Len(cs) - 1)), cs[Len(cs)])

NoScanResult == [kind |-> "none", list |-> <<>>]

ScanIdle ==
    /\ scan_pc = "idle"
    /\ params = NoParams
    /\ listing = <<>>
    /\ idx = 0
    /\ candidates = <<>>
    /\ fetched = [s \in ScanSymbols |-> [history |-> NotFetched, ticker |-> NotFetched]]
    /\ requests = <<>>
    /\ scan_result = NoScanResult

\* a client calls the tool find_arbitrage_pairs
ScanInvoke ==
    /\ scan_pc = "idle"
    /\ \E p \in ParamSets : params' = p
    /\ scan_pc' = "current"
    /\ UNCHANGED <<listing, idx, candidates, fetched, requests, scan_result>>
    /\ UNCHANGED hedgeVars
    /\ UNCHANGED scorer

\* one GET request of the scan; ok = it was answered with status 200 and a
\* body the scan could read
Request(kind, sym, ok) == [kind |-> kind, symbol |-> sym, ok |-> ok]

\* bug: the status of the batched response is not checked
FetchCurrent_IgnoresStatus ==
    /\ scan_pc = "current"
    /\ \E l \in Listings, ok \in BOOLEAN :
        /\ requests' = Append(requests, Request("current", "all", ok))
        /\ listing' = l
        /\ idx' = 1
        /\ scan_pc' = "pair"
        /\ UNCHANGED scan_result
    /\ UNCHANGED <<params, candidates, fetched>>
    /\ UNCHANGED hedgeVars
    /\ UNCHANGED scorer

\* lines 334-336: the listing, the error object on a status other than 200,
\* or the exception of a request that raises
FetchCurrent ==
    /\ scan_pc = "current"
    /\ \/ \E l \in Listings :
            /\ requests' = Append(requests, Request("current", "all", TRUE))
            /\ listing' = l
            /\ idx' = 1
            /\ scan_pc' = "pair"
            /\ UNCHANGED scan_result
       \/ /\ requests' = Append(requests, Request("current", "all", FALSE))
          /\ scan_result' = [kind |-> "error", list |-> <<>>]
          /\ scan_pc' = "done"
          /\ UNCHANGED <<listing, idx>>
       \/ /\ requests' = Append(requests, Request("current", "all", FALSE))
          /\ scan_result' = [kind |-> "exception", list |-> <<>>]
          /\ scan_pc' = "done"
          /\ UNCHANGED <<listing, idx>>
    /\ UNCHANGED <<params, candidates, fetched>>
    /\ UNCHANGED hedgeVars
    /\ UNCHANGED scorer

\* bug: break instead of continue
Continue_Break ==
    /\ idx' = idx
    /\ scan_pc' = "sort"

\* the loop moves on to the next pair, or ends
Continue ==
    /\ idx' = idx + 1
    /\ scan_pc' = IF idx + 1 > Len(listing) THEN "sort" ELSE "pair"

\* lines 338-344: parse the pair, apply the rate filter
FilterPair ==
    /\ scan_pc = "pair"
    /\ IF ~listing[idx].lastFundingRate.ok \/ BelowMinRate(listing[idx].lastFundingRate.v, params)
       THEN Continue
       ELSE scan_pc' = "history" /\ UNCHANGED idx
    /\ UNCHANGED <<params, listing, candidates, fetched, requests, scan_result>>
    /\ UNCHANGED hedgeVars
    /\ UNCHANGED scorer

\* lines 346-356
FetchHistory ==
    /\ scan_pc = "history"
    /\ \/ \E response \in HistoryResponses :
            /\ requests' = Append(requests, Request("history", listing[idx].symbol, response.status = 200))
            /\ IF response.status # 200
               THEN /\ fetched' = [fetched EXCEPT ![listing[idx].symbol].history = HistoryFailed]
                    /\ Continue
               ELSE /\ fetched' = [fetched EXCEPT ![listing[idx].symbol].history = HistoryOk(response.body)]
                    /\ scan_pc' = "ticker"
                    /\ UNCHANGED idx
       \/ /\ requests' = Append(requests, Request("history", listing[idx].symbol, FALSE))
          /\ fetched' = [fetched EXCEPT ![listing[idx].symbol].history = HistoryFailed]
          /\ Continue
    /\ UNCHANGED <<params, listing, candidates, scan_result>>
    /\ UNCHANGED hedgeVars
    /\ UNCHANGED scorer

\* lines 358-373
FetchTicker ==
    /\ scan_pc = "ticker"
    /\ LET sym == listing[idx].symbol
           current_rate == listing[idx].lastFundingRate.v
           stability == Stability(fetched[sym].history.rates, current_rate)
       IN  \/ \E response \in TickerResponses :
                /\ requests' = Append(requests, Request("ticker", sym, response.status = 200))
                /\ IF response.status # 200
                   THEN /\ fetched' = [fetched EXCEPT ![sym].ticker = TickerFailed]
                        /\ UNCHANGED candidates
                   ELSE /\ fetched' = [fetched EXCEPT ![sym].ticker = TickerOk(Volume(response))]
                        /\ candidates' =
                               IF Admits(Volume(response), stability, params)
                               THEN Append(candidates, Candidate(sym, current_rate, Volume(response), stability))
                               ELSE candidates
           \/ /\ requests' = Append(requests, Request("ticker", sym, FALSE))
              /\ fetched' = [fetched EXCEPT ![sym].ticker = TickerFailed]
              /\ UNCHANGED candidates
    /\ Continue
    /\ UNCHANGED <<params, listing, scan_result>>
    /\ UNCHANGED hedgeVars
    /\ UNCHANGED scorer

\* line 375
SortAndReturn ==
    /\ scan_pc = "sort"
    /\ scan_result' = [kind |-> "list", list |-> Sorted(candidates)]
    /\ scan_pc' = "done"
    /\ UNCHANGED <<params, listing, idx, candidates, fetched, requests>>
    /\ UNCHANGED hedgeVars
    /\ UNCHANGED scorer

\* the call is over: nothing of a scan is kept
ScanReturn ==
    /\ scan_pc = "done"
    /\ scan_pc' = "idle"
    /\ params' = NoParams
    /\ listing' = <<>>
    /\ idx' = 0
    /\ candidates' = <<>>
    /\ fetched' = [s \in ScanSymbols |-> [history |-> NotFetched, ticker |-> NotFetched]]
    /\ requests' = <<>>
    /\ scan_result' = NoScanResult
    /\ UNCHANGED hedgeVars
    /\ UNCHANGED scorer

\* the scorer on its own: any reference rate against any history
ReferenceRates == { -10, -3, 0, 5, 10 }
NoScore == [pc |-> "idle", current_rate |-> 0, rates |-> <<>>,
            stability |-> [num |-> 0, den |-> 1]]

ScorerInit == scorer = NoScore

\* line 354: rates and current_rate are at hand
ScoreInput ==
    /\ scorer.pc = "idle"
    /\ \E r \in ReferenceRates, h \in SeqsUpTo(HistoryVals, MaxHist) :
        scorer' = [pc |-> "rates", current_rate |-> r, rates |-> h,
                   stability |-> [num |-> 0, den |-> 1]]
    /\ UNCHANGED hedgeVars
    /\ UNCHANGED scanVars

\* lines 355-356
ScoreCompute ==
    /\ scorer.pc = "rates"
    /\ scorer' = [scorer EXCEPT !.pc = "scored",
                                !.stability = Stability(scorer.rates, scorer.current_rate)]
    /\ UNCHANGED hedgeVars
    /\ UNCHANGED scanVars

ScoreDone ==
    /\ scorer.pc = "scored"
    /\ scorer' = NoScore
    /\ UNCHANGED hedgeVars
    /\ UNCHANGED scanVars

Init == HedgeInit /\ ScanIdle /\ ScorerInit

Next ==
    \/ Invoke
    \/ CheckBalance
    \/ CheckBalanceRaises
    \/ FetchFunding
    \/ FetchFundingRaises
    \/ FetchPriceCached
    \/ FetchPrice
    \/ FetchPriceRaises
    \/ OpenSpot
    \/ OpenFutures
    \/ Hold
    \/ CloseFutures
    \/ CloseSpot
    \/ Settle
    \/ Return
    \/ QueryPrice

Spec == Init /\ [][Next]_vars

ScanNext ==
    \/ ScanInvoke
    \/ FetchCurrent
    \/ FilterPair
    \/ FetchHistory
    \/ FetchTicker
    \/ SortAndReturn
    \/ ScanReturn

ScanSpec == Init /\ [][ScanNext]_vars

ScorerNext ==
    \/ ScoreInput
    \/ ScoreCompute
    \/ ScoreDone

ScorerSpec == Init /\ [][ScorerNext]_vars

----------------------------------------------------------------------------
(* Properties of the hedge executor *)

OrderEvents == { i \in DOMAIN trace : trace[i].market # "none" }
Settled == pc = "done" /\ result.kind = "success"

\* line 242 or 240 has assigned available_balance
BalanceChecked == pc \notin {"idle", "balance"} /\ result # Raised("balance")

\* C1: once the balance is known, an available balance <= 0, or
\* min(requested quantity, available balance) <= 0, ends the execution with
\* the insufficient-balance error and without any order call
C1_NoOrderWithoutBalance ==
    (BalanceChecked /\ (\/ available_balance <= 0
                        \/ (quantity.ok /\ Min(quantity.v, available_balance) <= 0)))
        => /\ pc = "done"
           /\ result = ErrorResult("Insufficient balance")
           /\ OrderEvents = {}

C1_Witness ==
    /\ pc = "done"
    /\ quantity = Num(10)
    /\ available_balance = 0
    /\ result = ErrorResult("Insufficient balance")
    /\ trace = <<>>

\* C2: an order placement that returned an error is the last order call of
\* its execution
C2_FailedOrderIsLast ==
    \A i \in OrderEvents :
        trace[i].outcome = "error" => \A j \in OrderEvents : j <= i

\* C3: the success payload is returned only when four order placements were
\* made and every one succeeded
C3_SuccessOnlyIfAllOrdersSucceeded ==
    result.kind = "success"
        => /\ Cardinality(OrderEvents) = 4
           /\ \A i \in OrderEvents : trace[i].outcome = "ok"

\* C4: a settled execution made exactly these calls in this order: opening
\* spot order, opening futures order, holding interval, closing futures
\* order, closing spot order
C4_SettledOrder ==
    Settled =>
        [i \in DOMAIN trace |-> <<trace[i].step, trace[i].market>>]
            = << <<"open_spot", "spot">>, <<"open_futures", "futures">>,
                 <<"hold", "none">>, <<"close_futures", "futures">>,
                 <<"close_spot", "spot">> >>

C4_Witness ==
    /\ Settled
    /\ funding_rate < 0
    /\ Len(trace) = 5
    /\ trace[4].side = "SELL"

\* C5: while both opening legs are placed and no closing leg is, the spot
\* leg and the futures leg are one BUY and one SELL of the same symbol and
\* the same quantity
C5_OpenLegsOpposite ==
    \A i, j \in OrderEvents :
        (/\ trace[i].step = "open_spot"
         /\ trace[j].step = "open_futures"
         /\ \A k \in OrderEvents : trace[k].step \notin {"close_futures", "close_spot"})
            => /\ {trace[i].side, trace[j].side} = {"BUY", "SELL"}
               /\ trace[i].symbol = trace[j].symbol
               /\ trace[i].quantity = trace[j].quantity

C5_Witness ==
    /\ pc = "close_futures"
    /\ Len(trace) = 3
    /\ trace[1].side = "BUY"
    /\ trace[2].side = "SELL"
    /\ trace[1].quantity = 5
    /\ trace[2].quantity = 5

\* C6: a fetched rate > 0 opens with BUY spot and SELL futures, a rate <= 0
\* (0 included) with SELL spot and BUY futures; for a non-zero rate the
\* futures leg is short when longs pay and long when shorts pay
C6_DirectionBySign ==
    \A i \in OrderEvents :
        /\ trace[i].step = "open_spot" =>
              /\ funding_rate > 0 => trace[i].side = "BUY"
              /\ funding_rate <= 0 => trace[i].side = "SELL"
        /\ trace[i].step = "open_futures" =>
              /\ funding_rate > 0 => trace[i].side = "SELL"
              /\ funding_rate <= 0 => trace[i].side = "BUY"

C6_Witness ==
    /\ pc = "hold"
    /\ funding_rate = 0
    /\ trace[1].side = "SELL"
    /\ trace[2].side = "BUY"

\* C7: every order of one execution carries min(requested quantity,
\* available balance), which is positive and not above the balance
C7_QuantityCapped ==
    \A i \in OrderEvents :
        /\ quantity.ok
        /\ available_balance > 0
        /\ trace[i].quantity = Min(quantity.v, available_balance)
        /\ trace[i].quantity <= available_balance
        /\ trace[i].quantity >= 0

C7_Witness ==
    /\ Settled
    /\ quantity = Num(20)
    /\ available_balance = 5
    /\ \A i \in OrderEvents : trace[i].quantity = 5

\* the amounts of the claim C8, in units of 0.0000001
ExactFees == spot_price * actual_quantity * 10 * 2 + spot_price * actual_quantity * 2 * 2
ExactGross == Abs(funding_rate) * spot_price * actual_quantity

\* C8 as stated: the reported fees and net profit are the exact amounts, and
\* the reported net profit is negative whenever the gross profit is below
\* the fees
C8_ExactAmounts ==
    Settled =>
        /\ result.fees * RoundUnit = ExactFees
        /\ result.net_profit * RoundUnit = ExactGross - ExactFees
        /\ ExactGross < ExactFees => result.net_profit < 0

\* C8 amended: the reported fees and net profit are the exact amounts
\* rounded to 4 decimal digits; the reported net profit is never positive
\* when the gross profit is below the fees and is negative when the gap is
\* more than 0.00005; price 100, quantity 1, rate 0.001 reports fees 0.24
\* and net profit -0.14
C8_RoundedAmounts ==
    Settled =>
        /\ 2 * Abs(result.fees * RoundUnit - ExactFees) <= RoundUnit
        /\ 2 * Abs(result.net_profit * RoundUnit - (ExactGross - ExactFees)) <= RoundUnit
        /\ ExactGross < ExactFees => result.net_profit <= 0
        /\ 2 * (ExactFees - ExactGross) > RoundUnit => result.net_profit < 0
        /\ (spot_price = 10000 /\ actual_quantity = 10 /\ funding_rate = 10)
              => result.fees = 2400 /\ result.net_profit = 0 - 1400

C8_Witness ==
    /\ Settled
    /\ spot_price = 10000
    /\ actual_quantity = 10
    /\ funding_rate = 10
    /\ result.fees = 2400
    /\ result.net_profit = 0 - 1400

----------------------------------------------------------------------------
(* Properties of the scanner *)

ScanDone == scan_pc = "done" /\ scan_result.kind = "list"
InResult(sym) == \E i \in DOMAIN scan_result.list : scan_result.list[i].symbol = sym
FetchesSucceeded(sym) ==
    fetched[sym].history.state = "ok" /\ fetched[sym].ticker.state = "ok"

\* C9: of the listed symbols, one with |rate| < min_funding_rate is absent
\* from the result; one whose two fetches succeeded is absent if its volume
\* <= min_avg_volume or its stability < stability_threshold, and present
\* otherwise
C9_FilterExact ==
    ScanDone =>
        \A i \in DOMAIN listing :
            LET sym == listing[i].symbol
                rate == listing[i].lastFundingRate
                st == Stability(fetched[sym].history.rates, rate.v)
            IN  rate.ok =>
                /\ Abs(rate.v) < params.min_funding_rate => ~InResult(sym)
                /\ FetchesSucceeded(sym) =>
                    IF \/ Abs(rate.v) < params.min_funding_rate
                       \/ fetched[sym].ticker.volume <= params.min_avg_volume
                       \/ st.num * 100 < params.stability_threshold * st.den
                    THEN ~InResult(sym)
                    ELSE InResult(sym)

\* both boundaries that admit, next to the boundary that excludes
C9_Witness ==
    /\ ScanDone
    /\ params.stability_threshold = 50
    /\ listing[1] = [symbol |-> "AAA", lastFundingRate |-> Num(5)]
    /\ fetched["AAA"].history = HistoryOk(<<1, -1>>)
    /\ fetched["AAA"].ticker = TickerOk(DefaultMinAvgVolume + 1)
    /\ InResult("AAA")
    /\ listing[2].lastFundingRate = Num(10)
    /\ fetched["BBB"].history = HistoryOk(<<1, 1>>)
    /\ fetched["BBB"].ticker = TickerOk(DefaultMinAvgVolume)
    /\ ~InResult("BBB")

\* the candidates lines 338-373 collect from a listing, given what each
\* symbol's fetches return
RECURSIVE CandidatesOf(_)
CandidatesOf(l) ==
    IF l = <<>> THEN <<>>
    ELSE LET pair == l[Len(l)]
             sym == pair.symbol
             rate == pair.lastFundingRate
             st == Stability(fetched[sym].history.rates, rate.v)
             before == CandidatesOf(SubSeq(l, 1, Len(l) - 1))
         IN  IF /\ rate.ok
                /\ ~BelowMinRate(rate.v, params)
                /\ FetchesSucceeded(sym)
                /\ Admits(fetched[sym].ticker.volume, st, params)
             THEN Append(before, Candidate(sym, rate.v, fetched[sym].ticker.volume, st))
             ELSE before

\* the sequence the scan returns for a listing
ResultFor(l) == Sorted(CandidatesOf(l))

Reorderings ==
    { l \in [DOMAIN listing -> { listing[i] : i \in DOMAIN listing }] :
        \A i, j \in DOMAIN l : i # j => l[i] # l[j] }

DistinctMagnitudes ==
    \A i, j \in DOMAIN scan_result.list :
        i # j => Abs(scan_result.list[i].current_funding_rate)
                   # Abs(scan_result.list[j].current_funding_rate)

\* C10 as stated: the scan of any reordering of the listing, with the same
\* fetched values, returns the same sequence
C10_OrderIndependent ==
    ScanDone => \A l \in Reorderings : ResultFor(l) = scan_result.list

\* C10 amended: the scan of any reordering returns the same candidates, and
\* the same sequence when no two admitted symbols have equal
\* |current_funding_rate|; admitted symbols of equal |current_funding_rate|
\* come in the order of the listing
C10_OrderIndependentUpToTies ==
    ScanDone =>
        /\ ResultFor(listing) = scan_result.list
        /\ \A l \in Reorderings :
            /\ { ResultFor(l)[i] : i \in DOMAIN ResultFor(l) }
                 = { scan_result.list[i] : i \in DOMAIN scan_result.list }
            /\ Len(ResultFor(l)) = Len(scan_result.list)
            /\ DistinctMagnitudes => ResultFor(l) = scan_result.list
        /\ \A i, j \in DOMAIN scan_result.list :
            (/\ i < j
             /\ Abs(scan_result.list[i].current_funding_rate)
                  = Abs(scan_result.list[j].current_funding_rate))
                => \E a, b \in DOMAIN listing :
                     /\ a < b
                     /\ listing[a].symbol = scan_result.list[i].symbol
                     /\ listing[b].symbol = scan_result.list[j].symbol

\* the later listed symbol has the larger rate and comes first
C10_Witness ==
    /\ ScanDone
    /\ Len(scan_result.list) = 2
    /\ listing[1].lastFundingRate = Num(5)
    /\ listing[2].lastFundingRate = Num(-10)
    /\ scan_result.list[1].symbol = listing[2].symbol
    /\ scan_result.list[2].symbol = listing[1].symbol

----------------------------------------------------------------------------
(* Properties of the stability scorer *)

\* the samples strictly of the sign of the reference rate
AlignedSamples(h, r) ==
    { i \in DOMAIN h : (h[i] > 0 /\ r > 0) \/ (h[i] < 0 /\ r < 0) }

\* C11: the stability is (number of samples strictly of the sign of the
\* reference rate) / len(history): between 0 and 1, 0 for an empty history,
\* 1 for a non-empty history whose samples all have the sign of the
\* reference rate, and a zero sample never counts
C11_StabilityIsAlignedFraction ==
    scorer.pc = "scored" =>
        LET h == scorer.rates
            r == scorer.current_rate
            st == scorer.stability
        IN  /\ st.den > 0
            /\ 0 <= st.num
            /\ st.num <= st.den
            /\ h = <<>> => st.num = 0
            /\ h # <<>> => st.den = Len(h)
            /\ st.num = Cardinality(AlignedSamples(h, r))
            /\ (h # <<>> /\ AlignedSamples(h, r) = DOMAIN h) => st.num = st.den
            /\ st.num <= Cardinality({ i \in DOMAIN h : h[i] # 0 })

C11_Witness ==
    /\ scorer.pc = "scored"
    /\ scorer.current_rate = 0 - 10
    /\ scorer.rates = <<0, 0 - 1>>
    /\ scorer.stability = [num |-> 1, den |-> 2]

----------------------------------------------------------------------------
(* Properties of the scanner: failures, ranking, requests *)

FetchFailed(sym) ==
    fetched[sym].history.state = "failed" \/ fetched[sym].ticker.state = "failed"

\* the listing l without its i-th pair
Without(l, i) == [j \in 1..(Len(l) - 1) |-> IF j < i THEN l[j] ELSE l[j + 1]]

PassesRateFilter(pair) ==
    pair.lastFundingRate.ok /\ Abs(pair.lastFundingRate.v) >= params.min_funding_rate

\* C12: when the history fetch or the volume fetch of a listed symbol failed,
\* the scan still ends with a list and not an error, the list is the one the
\* scan returns for the listing without that symbol, and every listed symbol
\* that passes the rate filter had its history requested
C12_FailedSymbolSkipped ==
    scan_pc = "done" =>
        \A i \in DOMAIN listing :
            FetchFailed(listing[i].symbol) =>
                /\ scan_result.kind = "list"
                /\ scan_result.list = ResultFor(Without(listing, i))
                /\ ~InResult(listing[i].symbol)
                /\ \A j \in DOMAIN listing :
                      PassesRateFilter(listing[j])
                          => fetched[listing[j].symbol].history.state # "none"

C12_Witness ==
    /\ scan_pc = "done"
    /\ Len(listing) = 2
    /\ fetched[listing[1].symbol].history.state = "failed"
    /\ scan_result.kind = "list"
    /\ Len(scan_result.list) = 1
    /\ scan_result.list[1].symbol = listing[2].symbol

\* C13: when the batched current-rate request fails, it is the only request
\* of the scan, and the scan ends with the error and without a candidate
C13_BatchFailureFailsScan ==
    (requests # <<>> /\ ~requests[1].ok) =>
        /\ Len(requests) = 1
        /\ scan_pc = "done"
        /\ scan_result.kind \in {"error", "exception"}
        /\ scan_result.list = <<>>
        /\ candidates = <<>>
        /\ \A sym \in ScanSymbols :
              fetched[sym].history.state = "none" /\ fetched[sym].ticker.state = "none"

C13_Witness ==
    /\ scan_pc = "done"
    /\ scan_result = [kind |-> "error", list |-> <<>>]
    /\ requests = <<Request("current", "all", FALSE)>>

\* C15: in the returned sequence every candidate has an absolute funding
\* rate >= that of the candidate behind it
C15_SortedByMagnitude ==
    ScanDone =>
        \A i \in DOMAIN scan_result.list :
            i < Len(scan_result.list)
                => Abs(scan_result.list[i].current_funding_rate)
                     >= Abs(scan_result.list[i + 1].current_funding_rate)

\* a negative rate of larger magnitude ranks before a positive one
C15_Witness ==
    /\ ScanDone
    /\ Len(scan_result.list) = 2
    /\ scan_result.list[1].current_funding_rate = 0 - 10
    /\ scan_result.list[2].current_funding_rate = 5
    /\ listing[1].lastFundingRate = Num(5)

RequestsOf(kind, sym) ==
    { i \in DOMAIN requests : requests[i].kind = kind /\ requests[i].symbol = sym }

\* C19: a scan places no order and issues only GET requests: exactly one
\* batched current-rate request, first; none for a listed symbol with
\* |rate| < min_funding_rate; for any symbol at most one history request and
\* at most one volume request, the volume request after the history request
C19_RequestsBounded ==
    /\ trace = <<>>
    /\ \A i \in DOMAIN requests : requests[i].kind \in {"current", "history", "ticker"}
    /\ \A i \in DOMAIN requests : requests[i].kind = "current" <=> i = 1
    /\ scan_pc \notin {"idle", "current"} => Cardinality(RequestsOf("current", "all")) = 1
    /\ \A j \in DOMAIN listing :
          (listing[j].lastFundingRate.ok
             /\ Abs(listing[j].lastFundingRate.v) < params.min_funding_rate)
              => \A i \in DOMAIN requests : requests[i].symbol # listing[j].symbol
    /\ \A sym \in ScanSymbols :
          /\ Cardinality(RequestsOf("history", sym)) <= 1
          /\ Cardinality(RequestsOf("ticker", sym)) <= 1
          /\ \A i \in RequestsOf("ticker", sym) :
                \E k \in RequestsOf("history", sym) : k < i

C19_Witness ==
    /\ scan_pc = "done"
    /\ Len(listing) = 2
    /\ listing[1] = [symbol |-> "AAA", lastFundingRate |-> Num(3)]
    /\ listing[2] = [symbol |-> "BBB", lastFundingRate |-> Num(10)]
    /\ requests = <<Request("current", "all", TRUE),
                    Request("history", "BBB", TRUE),
                    Request("ticker", "BBB", TRUE)>>

----------------------------------------------------------------------------
(* Properties of the hedge executor: price, closing legs, pre-flight *)

\* C14: an execution never takes its price, or its price error, from what
\* an earlier invocation of the price tool obtained: when it leaves the
\* price step, nothing was cached for its symbol before
C14_NoEarlierPriceReused ==
    [][(pc = "price" /\ pc' # "price") => price_cache[symbol] = NoEntry]_vars

\* the position an execution holds on a market: what its answered orders
\* bought minus what they sold
RECURSIVE NetPosition(_, _)
NetPosition(t, market) ==
    IF t = <<>> THEN 0
    ELSE NetPosition(Tail(t), market)
         + (IF Head(t).market = market /\ Head(t).outcome = "ok"
            THEN (IF Head(t).side = "BUY" THEN Head(t).quantity ELSE 0 - Head(t).quantity)
            ELSE 0)

Opposite(side) == IF side = "BUY" THEN "SELL" ELSE "BUY"

\* C16: in a settled execution each closing order is on the side opposite
\* to the opening order of its market, for the same symbol and quantity,
\* and the execution holds no position on the spot market and none on the
\* futures market
C16_SettledFlat ==
    Settled =>
        /\ \A i, j \in OrderEvents :
              (/\ trace[i].market = trace[j].market
               /\ trace[i].step \in {"open_spot", "open_futures"}
               /\ trace[j].step \in {"close_spot", "close_futures"})
                  => /\ trace[j].side = Opposite(trace[i].side)
                     /\ trace[j].symbol = trace[i].symbol
                     /\ trace[j].quantity = trace[i].quantity
        /\ NetPosition(trace, "spot") = 0
        /\ NetPosition(trace, "futures") = 0

\* the pre-flight fetches are over; 0 is the spot price that was never
\* assigned, the empty list the funding history that has no first sample
PreflightOver == pc \notin {"idle", "balance", "funding", "price"}

\* C17: with a positive tradable quantity, an execution whose funding
\* history has no first sample, or whose price tool returned no price, has
\* ended with that exception and placed no order
C17_PreflightFailureAborts ==
    (PreflightOver /\ actual_quantity > 0
       /\ (funding_rate_data = <<>> \/ spot_price = 0))
        => /\ pc = "done"
           /\ result.kind = "exception"
           /\ result.detail \in {"funding", "price"}
           /\ OrderEvents = {}

\* the price tool hands back a cached error object
C17_Witness ==
    /\ pc = "done"
    /\ actual_quantity > 0
    /\ funding_rate_data # <<>>
    /\ price_cache[symbol].kind = "error"
    /\ result = Raised("price")
    /\ trace = <<>>

\* C18: the funding rate an execution uses is the most recent sample of the
\* fetched history
C18_UsesLatestSample ==
    (pc \notin {"idle", "balance", "funding"} /\ Len(funding_rate_data) > 1)
        => funding_rate = funding_rate_data[Len(funding_rate_data)]

====
